---- MODULE Spec2Model ----
(***************************************************************************)
(* Model of package imagext (src/imagext.go): the windowed filters         *)
(* ToMedian and ToAvarage with their row-window buffer (newLines,          *)
(* shiftLines), the histogram builder (fillHistogram), the statistics      *)
(* (median, avarage) and the CMYK conversion (cmykToGray).                 *)
(*                                                                         *)
(* Go slices are modelled as TLA+ sequences; the Go index k of a slice is  *)
(* position k+1 of the sequence.  Images have Rect.Min = (0,0), as the     *)
(* images NewGray builds (image.Rect(0, 0, width, height)), and            *)
(* len(Pix) = Stride*height.  A run-time panic (index or slice bounds out  *)
(* of range) is the control state pc = "fault".                            *)
(***************************************************************************)
EXTENDS Integers, Sequences, FiniteSets, TLC

VARIABLES
    filter,  \* which entry point runs: "median" (ToMedian) or "avarage" (ToAvarage)
    w,       \* img.Rect.Max.X - img.Rect.Min.X
    h,       \* img.Rect.Max.Y - img.Rect.Min.Y
    stride,  \* img.Stride
    size,    \* parameter size
    Pix,     \* img.Pix
    Pix0,    \* img.Pix as it was when the filter was called
    lines,   \* the row-window buffer
    hist,    \* the histogram (also the argument of median in SpecMedian)
    x, y,    \* loop variables of the filter
    pc,      \* control position
    mret,    \* value returned by median(hist)
    cmyk,    \* arguments of cmykToGray
    rgb,     \* the intermediate channel values r, g, b of cmykToGray
    gray     \* value returned by cmykToGray

vars == <<filter, w, h, stride, size, Pix, Pix0, lines, hist, x, y, pc,
          mret, cmyk, rgb, gray>>

filterVars == <<filter, w, h, stride, size, Pix, Pix0, lines, x, y>>
cmykVars == <<cmyk, rgb, gray>>

----------------------------------------------------------------------------
(* Bounds of the model *)

MaxW == 2
MaxH == 3
MaxPixels == 4
MaxPad == 1
MaxSize == 4
MaxBins == 5
MaxCount == 2
WideSize == 16

\* pixel values the input images are drawn from
PixVals == {0, 100, 255}
\* content of the bytes of a row beyond the width (Stride > width)
PadByte == 0

----------------------------------------------------------------------------
(* Program constants *)

White == 255
HistLen == 256
Uint8 == 256

----------------------------------------------------------------------------
(* Slices *)

\* make([]uint8, n): n zero bytes
Zero(n) == [i \in 1..n |-> 0]

\* setArrayValues(array, value)
setArrayValues(array, value) == [i \in 1..Len(array) |-> value]

\* whether the slice expression s[a:b:b] is within range
SliceOK(s, a, b) == 0 <= a /\ a <= b /\ b <= Len(s)

\* s[a:b]
Slice(s, a, b) == [i \in 1..(b - a) |-> s[a + i]]

\* copy(dst[off:], src): copies min(len(dst)-off, len(src)) elements
CopyAt(dst, off, src) ==
    [i \in 1..Len(dst) |->
        IF i > off /\ i - off <= Len(src) THEN src[i - off] ELSE dst[i]]

----------------------------------------------------------------------------
(* Locals of ToMedian / ToAvarage *)

lenImg == w
offLines == size \div 2
limit == h - offLines
idxLastLine == size - 1
lenLine == lenImg + size - 1

\* the guard of both filters
AcceptsNoSize(ww, hh, sz) == ww * hh > 0
Accepts(ww, hh, sz) == ww * hh > 0 /\ sz > 1

----------------------------------------------------------------------------
(* newLines, shiftLines *)

\* the seeding loop of newLines: for i, y := offLines-1, 0; i >= 0 && y < h
RECURSIVE seedLines(_, _, _)
seedLines(ls, i, yy) ==
    IF i >= 0 /\ yy < h
    THEN LET offImg == yy * stride
         IN  seedLines([ls EXCEPT ![i + 1] =
                            CopyAt(ls[i + 1], offLines, Slice(Pix, offImg, offImg + lenImg))],
                       i - 1, yy + 1)
    ELSE ls

newLines ==
    LET line0 == setArrayValues(Zero(lenLine), White)
        blank == [i \in 1..size |-> line0]
    IN  seedLines(blank, offLines - 1, 0)

\* shiftLines(lines, line0): copy(lines[1:], lines[0:len-1]); lines[0] = line0
shiftLines(ls, line0) == [i \in 1..Len(ls) |-> IF i = 1 THEN line0 ELSE ls[i - 1]]

----------------------------------------------------------------------------
(* fillHistogram *)

\* the samples line[x+j] of the window at column x0
WindowCells(ls, sz) == (1..Len(ls)) \X (0..(sz - 1))
Sample(ls, x0, cell) == ls[cell[1]][x0 + cell[2] + 1]

\* the window read from the image being written instead of from the buffer
fillHistogramLive(ls, sz, x0) ==
    LET live(cell) ==
            LET r == y + offLines - (cell[1] - 1)
                c == x0 + cell[2] - offLines
            IN  IF 0 <= r /\ r < h /\ 0 <= c /\ c < w
                THEN Pix[r * stride + c + 1] ELSE White
        cells == WindowCells(ls, sz)
        present == {live(cell) : cell \in cells}
    IN  [v \in 1..HistLen |->
            IF (v - 1) \in present
            THEN Cardinality({cell \in cells : live(cell) = v - 1}) % Uint8
            ELSE 0]

\* copy(hist, histZero), then hist[line[x+j]]++ for every line and every
\* j < size; a bin is a uint8, so a count is kept modulo 256
fillHistogram(ls, sz, x0) ==
    LET cells == WindowCells(ls, sz)
        present == {Sample(ls, x0, cell) : cell \in cells}
    IN  [v \in 1..HistLen |->
            IF (v - 1) \in present
            THEN Cardinality({cell \in cells : Sample(ls, x0, cell) = v - 1}) % Uint8
            ELSE 0]

\* every index line[x+j] of fillHistogram is within range
fillInRange(ls, sz, x0) ==
    \A i \in 1..Len(ls) : 0 <= x0 /\ x0 + sz - 1 < Len(ls[i])

----------------------------------------------------------------------------
(* sum, median, avarage *)

\* sum(values[a:b]); the additions are grouped in halves, which keeps the
\* evaluation shallow and leaves the total unchanged
RECURSIVE sum(_, _, _)
sum(values, a, b) ==
    IF a >= b THEN 0
    ELSE IF b = a + 1 THEN values[a + 1]
    ELSE LET mid == (a + b) \div 2
         IN  sum(values, a, mid) + sum(values, mid, b)

\* one pass of the loop body of median once left # middle: the three-way
\* comparison and the narrowing of [left, right)
NarrowNoLeftAcc(left, right, middle, leftSumPrev, rightSumPrev, leftSum, rightSum) ==
    IF leftSumPrev + leftSum > rightSum + rightSumPrev
    THEN [left |-> left, right |-> middle,
          leftSumPrev |-> leftSumPrev, rightSumPrev |-> rightSumPrev + rightSum]
    ELSE [left |-> middle, right |-> right,
          leftSumPrev |-> leftSumPrev, rightSumPrev |-> rightSumPrev]

NarrowNoRightAcc(left, right, middle, leftSumPrev, rightSumPrev, leftSum, rightSum) ==
    IF leftSumPrev + leftSum > rightSum + rightSumPrev
    THEN [left |-> left, right |-> middle,
          leftSumPrev |-> leftSumPrev, rightSumPrev |-> rightSumPrev]
    ELSE IF leftSumPrev + leftSum < rightSum + rightSumPrev
    THEN [left |-> middle, right |-> right,
          leftSumPrev |-> leftSumPrev + leftSum, rightSumPrev |-> rightSumPrev]
    ELSE [left |-> middle, right |-> right,
          leftSumPrev |-> leftSumPrev, rightSumPrev |-> rightSumPrev]

Narrow(left, right, middle, leftSumPrev, rightSumPrev, leftSum, rightSum) ==
    IF leftSumPrev + leftSum > rightSum + rightSumPrev
    THEN [left |-> left, right |-> middle,
          leftSumPrev |-> leftSumPrev, rightSumPrev |-> rightSumPrev + rightSum]
    ELSE IF leftSumPrev + leftSum < rightSum + rightSumPrev
    THEN [left |-> middle, right |-> right,
          leftSumPrev |-> leftSumPrev + leftSum, rightSumPrev |-> rightSumPrev]
    ELSE [left |-> middle, right |-> right,
          leftSumPrev |-> leftSumPrev, rightSumPrev |-> rightSumPrev]

\* the loop of median: for left < right { ... }; return 0
RECURSIVE medianLoop(_, _, _, _, _)
medianLoop(hs, left, right, leftSumPrev, rightSumPrev) ==
    IF left < right
    THEN LET middle == (left + right) \div 2
         IN  IF left # middle
             THEN LET s == Narrow(left, right, middle, leftSumPrev, rightSumPrev,
                                  sum(hs, left, middle), sum(hs, middle, right))
                  IN  medianLoop(hs, s.left, s.right, s.leftSumPrev, s.rightSumPrev)
             ELSE left % Uint8
    ELSE 0

median(hs) == medianLoop(hs, 0, Len(hs), 0, 0)

\* the accumulation of avarage: sum += uint(i) * uint(v) over the bins a..b-1
RECURSIVE weighted(_, _, _)
weighted(hs, a, b) ==
    IF a >= b THEN 0
    ELSE IF b = a + 1 THEN a * hs[a + 1]
    ELSE LET mid == (a + b) \div 2
         IN  weighted(hs, a, mid) + weighted(hs, mid, b)

avarage(hs, sz) == (weighted(hs, 0, Len(hs)) \div (sz * sz)) % Uint8

\* the statistic the running filter writes
Statistic(hs) == IF filter = "median" THEN median(hs) ELSE avarage(hs, size)

----------------------------------------------------------------------------
(* ToMedian / ToAvarage as a state machine *)

\* the offset of the image row the main loop loads for output row y:
\* offImgNew := offImg + offLines*img.Stride
offImgNewSame(yy) == yy * stride
offImgNew(yy) == yy * stride + offLines * stride

\* the index of pixel (x, y) in img.Pix: offImg + x - img.Rect.Min.X
PixIndex(xx, yy) == yy * stride + xx

Fault == pc' = "fault"

\* entry: the guard, the allocations and newLines
Call ==
    /\ pc = "call"
    /\ IF Accepts(w, h, size)
       THEN /\ lines' = newLines
            /\ y' = 0
            /\ pc' = "main"
       ELSE /\ pc' = "done"
            /\ UNCHANGED <<lines, y>>
    /\ UNCHANGED <<filter, w, h, stride, size, Pix, Pix0, hist, x, mret>>
    /\ UNCHANGED cmykVars

\* main loop, y < limit: load image row y+offLines into the last line and
\* rotate it to the front
MainAdvance ==
    /\ pc = "main"
    /\ y < limit
    /\ IF /\ idxLastLine >= 0
          /\ offLines <= lenLine
          /\ SliceOK(Pix, offImgNew(y), offImgNew(y) + lenImg)
       THEN /\ lines' = shiftLines(lines,
                          CopyAt(lines[idxLastLine + 1], offLines,
                                 Slice(Pix, offImgNew(y), offImgNew(y) + lenImg)))
            /\ x' = 0
            /\ pc' = "mainX"
       ELSE /\ Fault
            /\ UNCHANGED <<lines, x>>
    /\ UNCHANGED <<filter, w, h, stride, size, Pix, Pix0, hist, y, mret>>
    /\ UNCHANGED cmykVars

\* main loop, x < img.Rect.Max.X: fillHistogram
MainFill ==
    /\ pc = "mainX"
    /\ x < w
    /\ IF fillInRange(lines, size, x)
       THEN /\ hist' = fillHistogram(lines, size, x)
            /\ pc' = "mainW"
       ELSE /\ Fault
            /\ UNCHANGED hist
    /\ UNCHANGED <<filter, w, h, stride, size, Pix, Pix0, lines, x, y, mret>>
    /\ UNCHANGED cmykVars

\* main loop: img.Pix[offImg+x] = median(hist) or avarage(hist, size); x++
MainWrite ==
    /\ pc = "mainW"
    /\ IF 0 <= PixIndex(x, y) /\ PixIndex(x, y) < Len(Pix)
       THEN /\ Pix' = [Pix EXCEPT ![PixIndex(x, y) + 1] = Statistic(hist)]
            /\ x' = x + 1
            /\ pc' = "mainX"
       ELSE /\ Fault
            /\ UNCHANGED <<Pix, x>>
    /\ UNCHANGED <<filter, w, h, stride, size, Pix0, lines, hist, y, mret>>
    /\ UNCHANGED cmykVars

\* main loop: the row is finished; y++
MainRowEnd ==
    /\ pc = "mainX"
    /\ ~(x < w)
    /\ y' = y + 1
    /\ pc' = "main"
    /\ UNCHANGED <<filter, w, h, stride, size, Pix, Pix0, lines, hist, x, mret>>
    /\ UNCHANGED cmykVars

\* after the main loop: whiteLine := lines[idxLastLine]; setArrayValues(whiteLine, 255);
\* the tail loop starts at y = limit (ToMedian: and x = img.Rect.Min.X)
MainExit ==
    /\ pc = "main"
    /\ ~(y < limit)
    /\ IF idxLastLine >= 0
       THEN /\ lines' = [lines EXCEPT ![idxLastLine + 1] = setArrayValues(@, White)]
            /\ y' = limit
            /\ x' = 0
            /\ pc' = "tail"
       ELSE /\ Fault
            /\ UNCHANGED <<lines, x, y>>
    /\ UNCHANGED <<filter, w, h, stride, size, Pix, Pix0, hist, mret>>
    /\ UNCHANGED cmykVars

\* tail loop: shiftLines(lines, whiteLine).  ToAvarage then walks the row;
\* ToMedian builds the histogram of the single column x of this step.
\* whiteLine is the slice MainExit filled with 255; nothing writes to it
\* afterwards, so every buffer slot that aliases it holds an all-white line
TailAdvance ==
    /\ pc = "tail"
    /\ IF filter = "median" THEN x < w /\ y < h ELSE y < h
    /\ LET whiteLine == setArrayValues(Zero(lenLine), White)
           shifted == shiftLines(lines, whiteLine)
       IN  IF filter = "median"
           THEN IF fillInRange(shifted, size, x)
                THEN /\ lines' = shifted
                     /\ hist' = fillHistogram(shifted, size, x)
                     /\ pc' = "tailW"
                     /\ UNCHANGED x
                ELSE /\ lines' = shifted
                     /\ Fault
                     /\ UNCHANGED <<hist, x>>
           ELSE /\ lines' = shifted
                /\ x' = 0
                /\ pc' = "tailX"
                /\ UNCHANGED hist
    /\ UNCHANGED <<filter, w, h, stride, size, Pix, Pix0, y, mret>>
    /\ UNCHANGED cmykVars

\* tail loop of ToAvarage, x < img.Rect.Max.X: fillHistogram
TailFill ==
    /\ pc = "tailX"
    /\ x < w
    /\ IF fillInRange(lines, size, x)
       THEN /\ hist' = fillHistogram(lines, size, x)
            /\ pc' = "tailW"
       ELSE /\ Fault
            /\ UNCHANGED hist
    /\ UNCHANGED <<filter, w, h, stride, size, Pix, Pix0, lines, x, y, mret>>
    /\ UNCHANGED cmykVars

\* tail loop: write the statistic; ToAvarage: x++; ToMedian: x, y = x+1, y+1
TailWrite ==
    /\ pc = "tailW"
    /\ IF 0 <= PixIndex(x, y) /\ PixIndex(x, y) < Len(Pix)
       THEN /\ Pix' = [Pix EXCEPT ![PixIndex(x, y) + 1] = Statistic(hist)]
            /\ x' = x + 1
            /\ IF filter = "median"
               THEN y' = y + 1 /\ pc' = "tail"
               ELSE y' = y /\ pc' = "tailX"
       ELSE /\ Fault
            /\ UNCHANGED <<Pix, x, y>>
    /\ UNCHANGED <<filter, w, h, stride, size, Pix0, lines, hist, mret>>
    /\ UNCHANGED cmykVars

\* tail loop of ToAvarage: the row is finished; y++
TailRowEnd ==
    /\ pc = "tailX"
    /\ ~(x < w)
    /\ y' = y + 1
    /\ pc' = "tail"
    /\ UNCHANGED <<filter, w, h, stride, size, Pix, Pix0, lines, hist, x, mret>>
    /\ UNCHANGED cmykVars

\* the tail loop's condition fails: the filter returns
Return ==
    /\ pc = "tail"
    /\ ~(IF filter = "median" THEN x < w /\ y < h ELSE y < h)
    /\ pc' = "done"
    /\ UNCHANGED <<filter, w, h, stride, size, Pix, Pix0, lines, hist, x, y, mret>>
    /\ UNCHANGED cmykVars

Next ==
    \/ Call
    \/ MainAdvance
    \/ MainFill
    \/ MainWrite
    \/ MainRowEnd
    \/ MainExit
    \/ TailAdvance
    \/ TailFill
    \/ TailWrite
    \/ TailRowEnd
    \/ Return

\* the images of width ww, height hh and stride st with pixels drawn from vals
Images(ww, hh, st, vals) ==
    { [k \in 1..(st * hh) |->
          IF (k - 1) % st < ww THEN f[<<(k - 1) \div st, (k - 1) % st>>] ELSE PadByte]
      : f \in [(0..(hh - 1)) \X (0..(ww - 1)) -> vals] }

InitIdle ==
    /\ lines = <<>>
    /\ mret = 0
    /\ cmyk = [c |-> 0, m |-> 0, y |-> 0, k |-> 0]
    /\ rgb = [r |-> 0, g |-> 0, b |-> 0]
    /\ gray = 0

Init ==
    /\ filter \in {"median", "avarage"}
    /\ w \in 0..MaxW
    /\ h \in 0..MaxH
    /\ w * h <= MaxPixels
    /\ stride \in {w, w + MaxPad}
    /\ size \in 0..MaxSize
    /\ Pix \in Images(w, h, stride, PixVals)
    /\ Pix0 = Pix
    /\ hist = Zero(HistLen)
    /\ x = 0
    /\ y = 0
    /\ pc = "call"
    /\ InitIdle

Spec == Init /\ [][Next]_vars

----------------------------------------------------------------------------
(* The filters on a window of WideSize x WideSize samples: size*size reaches
   the range of a uint8 bin *)

\* the images whose pixels are white but for at most one black pixel
NearWhite(ww, hh, st) ==
    { [k \in 1..(st * hh) |->
          IF (k - 1) % st < ww THEN (IF k = b THEN 0 ELSE White) ELSE PadByte]
      : b \in 0..(st * hh) }

InitWide ==
    /\ filter \in {"median", "avarage"}
    /\ w = 1
    /\ h \in {WideSize \div 2, WideSize \div 2 + 1}
    /\ stride = w
    /\ size = WideSize
    /\ Pix \in NearWhite(w, h, stride)
    /\ Pix0 = Pix
    /\ hist = Zero(HistLen)
    /\ x = 0
    /\ y = 0
    /\ pc = "call"
    /\ InitIdle

SpecWide == InitWide /\ [][Next]_vars

----------------------------------------------------------------------------
(* median as a function of its histogram *)

\* the histograms of TestMedian
TestHist1 == <<2, 0, 0, 7, 0, 1, 3, 0, 0, 0>>
TestHist2 == <<7, 0, 0, 2, 0, 1, 3, 0, 0, 0>>
TestHist3 == <<7, 0, 0, 2, 0, 1, 3, 0, 0, 10>>
\* the samples {9, 5, 17} of ToMedian's comment, as the filter's 256 bins
DocHist == [v \in 1..HistLen |-> IF v - 1 \in {9, 5, 17} THEN 1 ELSE 0]

\* hs followed by empty bins up to the filter's 256 bins
Padded(hs) == [v \in 1..HistLen |-> IF v <= Len(hs) THEN hs[v] ELSE 0]

\* the bins of hs spread over the 256 bins, bin i at 255 - (i-1)*step
Spread(hs) ==
    LET step == (HistLen - 1) \div MaxBins
    IN  [v \in 1..HistLen |->
            IF (HistLen - v) % step = 0 /\ (HistLen - v) \div step < Len(hs)
            THEN hs[(HistLen - v) \div step + 1] ELSE 0]

SmallHists == UNION {[1..n -> 0..MaxCount] : n \in 1..MaxBins}

MedianInputs ==
    SmallHists \cup {Padded(hs) : hs \in SmallHists} \cup {Spread(hs) : hs \in SmallHists}
    \cup {TestHist1, TestHist2, TestHist3, DocHist,
          Padded(TestHist1), Padded(TestHist2), Padded(TestHist3)}

InitMedian ==
    /\ filter = "median"
    /\ w = 0 /\ h = 0 /\ stride = 0 /\ size = 0
    /\ Pix = <<>> /\ Pix0 = <<>>
    /\ x = 0 /\ y = 0
    /\ hist \in MedianInputs
    /\ pc = "median_call"
    /\ InitIdle

CallMedian ==
    /\ pc = "median_call"
    /\ mret' = median(hist)
    /\ pc' = "median_done"
    /\ UNCHANGED <<hist, filterVars, cmykVars>>

NextMedian == CallMedian

SpecMedian == InitMedian /\ [][NextMedian]_vars

----------------------------------------------------------------------------
(* cmykToGray *)

\* ((k * v >> 8) + kDiff) - v on Go's uint.  The value kept here is the
\* difference before it is reduced modulo 2^W (W = 32 or 64, the width of
\* uint): the uint holds  d  when d >= 0 and  2^W + d  when d < 0.
cmykChannel(k, v) == (((k * v) \div 256) + (255 - k)) - v

\* uint8((r*2449 + g*4809 + b*934) >> 13).  With S the sum over the
\* differences kept above, the uint sum is S mod 2^W, its shift is
\* 2^(W-13) + floor(S / 2^13) when S < 0, and 2^(W-13) is a multiple of 256:
\* the byte returned is floor(S / 2^13) mod 256 for either width.
cmykGray(r, g, b) == ((r * 2449 + g * 4809 + b * 934) \div 8192) % Uint8

\* argument values of cmykToGray
CmykSamples == {0, 1, 127, 128, 254, 255}

InitCmyk ==
    /\ filter = "median"
    /\ w = 0 /\ h = 0 /\ stride = 0 /\ size = 0
    /\ Pix = <<>> /\ Pix0 = <<>>
    /\ x = 0 /\ y = 0
    /\ hist = Zero(HistLen)
    /\ lines = <<>>
    /\ mret = 0
    /\ cmyk \in [c : CmykSamples, m : CmykSamples, y : CmykSamples, k : CmykSamples]
    /\ rgb = [r |-> 0, g |-> 0, b |-> 0]
    /\ gray = 0
    /\ pc = "cmyk_call"

CallCmyk ==
    /\ pc = "cmyk_call"
    /\ rgb' = [r |-> cmykChannel(cmyk.k, cmyk.c),
               g |-> cmykChannel(cmyk.k, cmyk.m),
               b |-> cmykChannel(cmyk.k, cmyk.y)]
    /\ gray' = cmykGray(rgb'.r, rgb'.g, rgb'.b)
    /\ pc' = "cmyk_done"
    /\ UNCHANGED <<cmyk, hist, mret, filterVars>>

NextCmyk == CallCmyk

SpecCmyk == InitCmyk /\ [][NextCmyk]_vars

----------------------------------------------------------------------------
(* Reference definitions for the properties: the input image padded with
   white, and the window of an output pixel *)

\* the input value at row r, column c; white outside the image
Orig(r, c) ==
    IF 0 <= r /\ r < h /\ 0 <= c /\ c < w THEN Pix0[r * stride + c + 1] ELSE White

\* input row r as a buffer line: offLines white columns, the row, white columns
PaddedRow(r) == [i \in 1..lenLine |-> Orig(r, i - 1 - offLines)]

\* the number of samples of each value in the size x size window of output
\* pixel (cx, cy): input rows cy+offLines-size+1 .. cy+offLines, input columns
\* cx-offLines .. cx-offLines+size-1
WindowCount(cx, cy) ==
    LET cells == (0..(size - 1)) \X (0..(size - 1))
        val(cell) == Orig(cy + offLines - cell[1], cx - offLines + cell[2])
        present == {val(cell) : cell \in cells}
    IN  [v \in 1..HistLen |->
            IF (v - 1) \in present
            THEN Cardinality({cell \in cells : val(cell) = v - 1})
            ELSE 0]

\* a histogram has just been built for pixel (x, y) of output row y
HistBuilt == pc \in {"mainW", "tailW"} /\ 0 <= y /\ y < h

\* the pixels (not the bytes beyond the width) of image P are all white
AllWhite(P) == \A r \in 0..(h - 1), c \in 0..(w - 1) : P[r * stride + c + 1] = White

\* the total of a histogram, and the weights below / from index k
Total(hs) == sum(hs, 0, Len(hs))
Below(hs, k) == sum(hs, 0, k)
AtOrAbove(hs, k) == sum(hs, k, Len(hs))
Abs(n) == IF n < 0 THEN -n ELSE n

----------------------------------------------------------------------------
(* Properties *)

\* C1: on degenerate input (image area 0, or size 0 or 1) the filter returns
\* at once and every byte of img.Pix has the value it had before the call.
C1_DegenerateNoOp ==
    (pc # "call" /\ ~(w * h > 0 /\ size > 1)) => (pc = "done" /\ Pix = Pix0)

C1_Witness ==
    /\ pc = "done"
    /\ w * h > 0
    /\ size = 1
    /\ \E k \in 1..Len(Pix0) : Pix0[k] # White

\* C2 (as claimed): for width >= 1, height >= 1 and size >= 2 the filter never
\* faults: every index into img.Pix and into the buffer lines is in range.
C2_NoFault ==
    (w >= 1 /\ h >= 1 /\ size >= 2) => pc # "fault"

\* C3 (as claimed): an all-white image of width >= 1, height >= 1 is still
\* all white after ToAvarage and after ToMedian, for every size >= 2.
C3_WhiteStaysWhite ==
    (pc = "done" /\ w >= 1 /\ h >= 1 /\ size >= 2 /\ AllWhite(Pix0)) => AllWhite(Pix)

\* C4 (as claimed): after ToMedian with size >= 2 on a non-empty image every
\* pixel, the tail rows included, holds median() of its window's histogram.
C4_EveryPixelMedian ==
    (pc = "done" /\ filter = "median" /\ w >= 1 /\ h >= 1 /\ size >= 2)
        => \A r \in 0..(h - 1), c \in 0..(w - 1) :
               Pix[r * stride + c + 1] = median(WindowCount(c, r))

\* C5: for a histogram with an odd number n of samples median returns the
\* statistical median, the smallest v with hist[0]+...+hist[v] >= (n+1)/2;
\* TestMedian's histograms give 3, 0, 6 and the samples {9, 5, 17} give 9.
C5_OddMedian ==
    pc = "median_done" =>
        /\ Total(hist) % 2 = 1 =>
              /\ 2 * Below(hist, mret + 1) >= Total(hist) + 1
              /\ 2 * Below(hist, mret) < Total(hist) + 1
        /\ hist = TestHist1 => mret = 3
        /\ hist = TestHist2 => mret = 0
        /\ hist = TestHist3 => mret = 6
        /\ hist = DocHist => mret = 9

C5_Witness ==
    /\ pc = "median_done"
    /\ hist = TestHist3
    /\ mret = 6

\* C6 (as claimed): for a 256-bin histogram with at least one sample the
\* value m returned by median minimises |sum(h[0..k-1]) - sum(h[k..255])|
\* over k in 0..255.
C6_BestBalance ==
    (pc = "median_done" /\ Len(hist) = HistLen /\ Total(hist) >= 1) =>
        \A k \in 0..(HistLen - 1) :
            Abs(Below(hist, mret) - AtOrAbove(hist, mret))
                <= Abs(Below(hist, k) - AtOrAbove(hist, k))

\* C6 (amended): for a histogram with at least one sample the value m
\* returned by median is where the balance changes sign, not where it is
\* smallest: the weight above m never exceeds the weight at or below m, and
\* when the number of samples is odd the weight below m is less than the
\* weight at or above m.
C6_SignChange ==
    (pc = "median_done" /\ Total(hist) >= 1) =>
        /\ AtOrAbove(hist, mret + 1) <= Below(hist, mret + 1)
        /\ Total(hist) % 2 = 1 => Below(hist, mret) < AtOrAbove(hist, mret)

C6_Witness ==
    /\ pc = "median_done"
    /\ hist = Padded(TestHist2)
    /\ mret = 0
    /\ Abs(Below(hist, 1) - AtOrAbove(hist, 1)) < Abs(Below(hist, 0) - AtOrAbove(hist, 0))

C8_HistogramTotal ==
    (pc \in {"mainW", "tailW"} /\ size >= 2) => Total(hist) = size * size

\* C9: every sample counted into a histogram is the white padding or the
\* value its pixel had before the call: the histogram built for pixel (x, y)
\* counts the window of the input image, never a value written in this pass.
C9_SamplesAreInput ==
    HistBuilt =>
        LET count == WindowCount(x, y)
        IN  \A v \in 1..HistLen : hist[v] = count[v] % Uint8

C9_Witness ==
    /\ pc = "mainW"
    /\ x >= 1
    /\ Pix[PixIndex(x - 1, y) + 1] # Pix0[PixIndex(x - 1, y) + 1]
    /\ hist[Pix0[PixIndex(x - 1, y) + 1] + 1] > 0

\* C10 (as claimed): for c, m, y, k in 0..255 every intermediate channel
\* value of cmykToGray lies in 0..255 (the unsigned subtraction does not
\* wrap), and cmykToGray(c, m, y, 255) = 0.
C10_ChannelsInRange ==
    pc = "cmyk_done" =>
        /\ rgb.r \in 0..255
        /\ rgb.g \in 0..255
        /\ rgb.b \in 0..255
        /\ cmyk.k = 255 => gray = 0

====
